---- MODULE Spec2Model ----
(***************************************************************************)
(* A model of the autonomous driver AICar (src/src/utils/AICar.ts) and of  *)
(* the frame loop that drives it (src/src/components/GameCanvas.tsx).      *)
(*                                                                         *)
(* Numbers are fixed point integers:                                       *)
(*   time                          milliseconds                            *)
(*   angles                        milliradians (PI == 3142)               *)
(*   positions, distances, speeds  world units, world units per second     *)
(*   difficulty                    hundredths  (85 is 0.85)                *)
(*   aggressiveness, probabilities, random rolls   thousandths             *)
(*   sensor readings               tenths (10 is 1.0, 5 is 0.5)            *)
(*   Sin, Cos                      thousandths                             *)
(* Distances are compared by their squares, which is exact for sqrt.       *)
(*                                                                         *)
(* Car.ts, Track.ts, AIAlgorithms.ts, GameMode.ts and EnhancedAICar.ts are *)
(* not part of the available source: the base class operations             *)
(* (accelerate, brake, ..., Car.update), the Track, RayCaster.castRays and *)
(* the mode configuration are modelled from the written design, and an     *)
(* EnhancedAICar drives with the decision policy of AICar; aiKind tells    *)
(* the two classes apart.                                                  *)
(***************************************************************************)
EXTENDS Integers, Sequences, FiniteSets, TLC

VARIABLES
  track,     \* the shared Track: checkpoints and bounds
  ai,        \* the AICar object: the fields of Car and of AICar
  call,      \* the arguments of the last AICar.update call
  log,       \* the calls AICar.update made, in order, in its last run
  pass,      \* what the decision pass of the last update call computed
  nUpdates,  \* number of update calls so far
  query,     \* inputs of a direct isAheadOf evaluation
  answer,    \* its result
  player,    \* the player's Car object
  keysPressed,           \* keysPressed.current: the set of keys held down
  lastTimestamp,         \* lastTimestamp.current
  playerSensorReadings,  \* playerSensorReadings.current
  gameStats, \* the gameStats state of the component
  closure,   \* the gameStats value the running gameLoop closed over
  frame,     \* what the last gameLoop callback did
  showModePicker,  \* the mode picker is shown
  render3D,        \* 3D graphics: no canvas element is rendered
  gameMode,
  cameraMode,
  showUI,
  gameLoaded,
  aiType,    \* gameStats.aiType
  aiKind,    \* the class of the aiCar object
  camera,    \* the Camera object
  ids,       \* which instances the track, playerCar, aiCar and camera
             \* states hold: the number of their construction, 0 for null
  built,     \* number of constructions so far
  requestRef,      \* requestRef.current: the last frame request, 0 for none
  scheduled, \* the frame requests the browser holds, by the loop they
             \* belong to
  cleanups,  \* which effects returned a cleanup function in their last run
  loops,     \* number of game loops started so far
  events     \* number of clicks and command key presses so far

driverVars == <<track, ai, call, log, pass, nUpdates, query, answer>>

loopVars == <<player, keysPressed, lastTimestamp, playerSensorReadings,
              gameStats, closure, frame>>

sessionVars == <<showModePicker, render3D, gameMode, cameraMode, showUI,
                 gameLoaded, aiType, aiKind, camera, ids, built, requestRef,
                 scheduled, cleanups, loops, events>>

vars == <<track, ai, call, log, pass, nUpdates, query, answer, player,
          keysPressed, lastTimestamp, playerSensorReadings, gameStats,
          closure, frame, showModePicker, render3D, gameMode, cameraMode,
          showUI, gameLoaded, aiType, aiKind, camera, ids, built, requestRef,
          scheduled, cleanups, loops, events>>

-----------------------------------------------------------------------------
(* Bounds of the model *)

MaxUpdates == 4

-----------------------------------------------------------------------------
(* Arithmetic *)

PI == 3142

HalfPI == PI \div 2

Abs(n) == IF n < 0 THEN -n ELSE n

Min(a, b) == IF a < b THEN a ELSE b

Max(a, b) == IF a > b THEN a ELSE b

\* n / d rounded to the nearest integer (halves upward), d > 0
RoundDiv(n, d) == (n + d \div 2) \div d

RECURSIVE SqrtIter(_, _)
SqrtIter(n, r) ==
  IF r * r <= n /\ (r + 1) * (r + 1) > n THEN r
  ELSE SqrtIter(n, (r + n \div r) \div 2)

\* Math.sqrt on the squared length of an integer vector, rounded
Sqrt(n) ==
  IF n <= 0 THEN 0
  ELSE LET r == SqrtIter(n, n)
       IN IF n - r * r > (r + 1) * (r + 1) - n THEN r + 1 ELSE r

\* the angle a brought into [-PI, PI] by whole turns, PI itself kept
RECURSIVE WrapAngle(_)
WrapAngle(a) ==
  IF a > PI THEN WrapAngle(a - 2 * PI)
  ELSE IF a < -PI THEN WrapAngle(a + 2 * PI)
  ELSE a

\* sine of a in [0, PI], in thousandths (Bhaskara's rational approximation,
\* exact at 0, PI/2 and PI)
SinHalfTurn(a) ==
  LET p == a * (PI - a)
  IN (16 * p) \div ((5 * PI * PI - 4 * p) \div 1000)

\* Math.sin, in thousandths
Sin(a) ==
  LET w == WrapAngle(a)
  IN IF w >= 0 THEN SinHalfTurn(w) ELSE -SinHalfTurn(-w)

\* Math.cos, in thousandths
Cos(a) == Sin(a + HalfPI)

\* arctangent of n/d for 0 <= n <= d, d > 0, in milliradians
AtanUnit(n, d) ==
  LET z == (1000 * n) \div d
  IN (z * (785 + (273 * (1000 - z)) \div 1000)) \div 1000

\* Math.atan2(a, b): the angle of the vector with sine part a and cosine
\* part b, in (-PI, PI]; integer arguments carry no negative zero
Atan2(a, b) ==
  LET q == IF Abs(a) <= Abs(b) THEN AtanUnit(Abs(a), Abs(b))
           ELSE HalfPI - AtanUnit(Abs(b), Abs(a))
  IN IF a = 0 /\ b = 0 THEN 0
     ELSE IF b >= 0 THEN (IF a >= 0 THEN q ELSE -q)
     ELSE IF a >= 0 THEN PI - q ELSE q - PI

Dist2(ax, ay, bx, by) == (bx - ax) * (bx - ax) + (by - ay) * (by - ay)

-----------------------------------------------------------------------------
(* Track (modelled from the design: Track.ts is not available) *)

\* a closed loop of three checkpoints inside a rectangular drivable area;
\* the last checkpoint is the finish
TrackNew ==
  [ width  |-> 400,
    height |-> 300,
    startPosition |-> [x |-> 200, y |-> 152],
    startAngle |-> 0,
    checkpoints |-> << [x |-> 170, y |-> 130],
                       [x |-> 230, y |-> 130],
                       [x |-> 230, y |-> 175] >> ]

\* Track.isPointOutOfBounds: anything outside the drivable rectangle
isPointOutOfBounds(t, x, y) ==
  x < 0 \/ x > t.width \/ y < 0 \/ y > t.height

-----------------------------------------------------------------------------
(* Car (modelled from the design: Car.ts is not available) *)

Acceleration == 1000

BrakeRate == 1500

DragRate == 300

TurnRate == 3

BoostMultiplierTenths == 15

DriftFactorPercent == 10

\* the field targetCheckpoint of a Car that has none yet
Undefined == -1

speedCeiling(s) ==
  IF s.boosting THEN (s.maxVelocity * BoostMultiplierTenths) \div 10
  ELSE s.maxVelocity

getSpeed(s) == s.speed

accelerate(s, dt) ==
  [s EXCEPT !.speed = Max(s.speed,
                          Min(speedCeiling(s),
                              s.speed + (Acceleration * Max(dt, 0)) \div 1000))]

brake(s, dt) ==
  [s EXCEPT !.speed = Max(0, s.speed - (BrakeRate * Max(dt, 0)) \div 1000)]

releaseAccelerator(s, dt) ==
  [s EXCEPT !.speed = Max(0, s.speed - (DragRate * Max(dt, 0)) \div 1000)]

turnLeft(s, dt) == [s EXCEPT !.angle = s.angle - TurnRate * Max(dt, 0)]

turnRight(s, dt) == [s EXCEPT !.angle = s.angle + TurnRate * Max(dt, 0)]

activateBoost(s) == [s EXCEPT !.boosting = TRUE]

deactivateBoost(s) == [s EXCEPT !.boosting = FALSE]

\* heading normalized into (-PI, PI]
normalizeHeading(a) ==
  LET w == WrapAngle(a) IN IF w = -PI THEN PI ELSE w

\* Car.update: position += speed*dt*(sin heading, -cos heading), lateral
\* slip while drifting, speed clamped, heading normalized
CarUpdate(s, dt) ==
  LET t    == Max(dt, 0)
      fwd  == s.speed * t
      slip == IF s.drifting THEN (fwd * DriftFactorPercent) \div 100 ELSE 0
      nx   == s.x + RoundDiv(fwd * Sin(s.angle), 1000000)
                  + RoundDiv(slip * Cos(s.angle), 1000000)
      ny   == s.y - RoundDiv(fwd * Cos(s.angle), 1000000)
                  + RoundDiv(slip * Sin(s.angle), 1000000)
  IN [s EXCEPT !.x = nx,
               !.y = ny,
               !.speed = Max(0, Min(s.speed, speedCeiling(s))),
               !.angle = normalizeHeading(s.angle)]

\* Car.handleCollision: a speed penalty and a heading perturbation
CollisionTwist == 100

handleCollision(s) ==
  [s EXCEPT !.speed = s.speed \div 2,
            !.angle = normalizeHeading(s.angle + CollisionTwist)]

\* the Car constructor: at rest, no drift, no boost, racing toward the
\* first checkpoint
CarNew(x, y, angle) ==
  [ x |-> x, y |-> y, angle |-> angle, speed |-> 0, maxVelocity |-> 300,
    boosting |-> FALSE, drifting |-> FALSE, targetCheckpoint |-> 0 ]

\* the proximity threshold of Track.checkCheckpoint
CrossingRadius == 50

\* Track.checkCheckpoint: the vehicle is within the proximity threshold of
\* the checkpoint it is racing toward; then its cursor advances by one and
\* the result tells the finish from an ordinary checkpoint
checkCheckpoint(t, vehicle) ==
  LET i  == vehicle.targetCheckpoint
      cp == t.checkpoints[i + 1]
      n  == Len(t.checkpoints)
  IN IF Dist2(vehicle.x, vehicle.y, cp.x, cp.y)
          < CrossingRadius * CrossingRadius
     THEN [ car    |-> [vehicle EXCEPT !.targetCheckpoint = (i + 1) % n],
            result |-> IF i = n - 1 THEN "finish" ELSE "checkpoint" ]
     ELSE [car |-> vehicle, result |-> "none"]

-----------------------------------------------------------------------------
(* RayCaster (modelled from the design: AIAlgorithms.ts is not available) *)

\* the distance between two points tested along a ray
RayStep == 10

\* one ray: the distance marched from (x, y) in the direction whose sine
\* and cosine are sn and cs until a point out of bounds, at most rayLength
RECURSIVE march(_, _, _, _, _, _, _)
march(t, x, y, sn, cs, d, rayLength) ==
  IF d >= rayLength THEN rayLength
  ELSE IF isPointOutOfBounds(t, x + RoundDiv(sn * d, 1000),
                                y - RoundDiv(cs * d, 1000))
       THEN d
       ELSE march(t, x, y, sn, cs, d + RayStep, rayLength)

\* RayCaster.castRays: rayCount distances, the rays spread evenly over
\* spread around the heading
castRays(pose, t, rayCount, rayLength, spread) ==
  [ i \in 1..rayCount |->
      LET a == pose.angle - spread \div 2
                 + (spread * (i - 1)) \div (rayCount - 1)
      IN CHOOSE r \in { march(t, pose.x, pose.y, sc[1], sc[2], 0, rayLength) :
                          sc \in {<<Sin(a), Cos(a)>>} } : TRUE ]

-----------------------------------------------------------------------------
(* AICar: construction *)

Segments == 5

LookAhead == 10

ProximityThreshold == 100

CheckpointRadius == 50

NoCheckpointDistance == 1000

\* this.track.checkpoints[i], i counted from 0
Checkpoint(t, i) == t.checkpoints[i + 1]

CheckpointCount(t) == Len(t.checkpoints)

\* the waypoint pushed for leg i, step j of calculateRacingLine
racingPoint(t, i, j) ==
  LET checkpoint     == Checkpoint(t, i)
      nextCheckpoint == Checkpoint(t, (i + 1) % CheckpointCount(t))
      dx == nextCheckpoint.x - checkpoint.x
      dy == nextCheckpoint.y - checkpoint.y
      length == Sqrt(dx * dx + dy * dy)
      \* sin(t * PI) * 30 with t = j / segments, in thousandths
      curveFactor == Sin(RoundDiv(j * PI, Segments)) * 30
  IN [ x |-> checkpoint.x + RoundDiv(dx * j, Segments)
                          + RoundDiv(-dy * curveFactor, 1000 * length),
       y |-> checkpoint.y + RoundDiv(dy * j, Segments)
                          + RoundDiv(dx * curveFactor, 1000 * length) ]

\* the inner loop with j < segments for j <= segments
RECURSIVE legLoopShort(_, _, _, _)
legLoopShort(t, i, j, points) ==
  IF j < Segments
  THEN legLoopShort(t, i, j + 1, Append(points, racingPoint(t, i, j)))
  ELSE points

\* the inner loop of calculateRacingLine: for (j = 0; j <= segments; j++)
RECURSIVE legLoop(_, _, _, _)
legLoop(t, i, j, points) ==
  IF j <= Segments
  THEN legLoop(t, i, j + 1, Append(points, racingPoint(t, i, j)))
  ELSE points

\* the outer loop: for (i = 0; i < checkpoints.length; i++)
RECURSIVE lineLoop(_, _, _)
lineLoop(t, i, points) ==
  IF i < CheckpointCount(t)
  THEN lineLoop(t, i + 1, legLoop(t, i, 0, points))
  ELSE points

calculateRacingLine(t) == lineLoop(t, 0, <<>>)

avoidanceSensors ==
  << [angle |-> -500, distance |-> 80],
     [angle |-> 0,    distance |-> 100],
     [angle |-> 500,  distance |-> 80] >>

\* the AICar constructor; difficulty in hundredths, a multiple of 5
AICarNew(x, y, angle, t, difficulty) ==
  [ x |-> x, y |-> y, angle |-> angle, speed |-> 0,
    drifting |-> FALSE, boosting |-> FALSE,
    targetCheckpoint |-> 0,
    difficulty       |-> difficulty,
    maxVelocity      |-> 280 + (difficulty * 40) \div 100,
    reactionTime     |-> 200 - difficulty,
    lastDecision     |-> 0,
    racingLine       |-> calculateRacingLine(t),
    aggressiveness   |-> difficulty * 8,
    driftProbability |-> difficulty * 3,
    preferredSpeed   |-> 220 + (difficulty * 80) \div 100 ]

-----------------------------------------------------------------------------
(* AICar: queries *)

\* distanceToCheckpoint, squared; 1000 when there is no targeted checkpoint
distanceToCheckpointSq(s, t) ==
  IF s.targetCheckpoint = Undefined
  THEN NoCheckpointDistance * NoCheckpointDistance
  ELSE LET checkpoint == Checkpoint(t, s.targetCheckpoint)
       IN Dist2(s.x, s.y, checkpoint.x, checkpoint.y)

\* distanceToPlayer, squared
distanceToPlayerSq(s, playerCar) == Dist2(s.x, s.y, playerCar.x, playerCar.y)

\* isAheadOf with <= for < on the distances
isAheadOfOnTie(s, otherCar, t) ==
  IF s.targetCheckpoint = Undefined \/ otherCar.targetCheckpoint = Undefined
  THEN FALSE
  ELSE IF s.targetCheckpoint > otherCar.targetCheckpoint THEN TRUE
  ELSE IF s.targetCheckpoint = otherCar.targetCheckpoint
  THEN LET checkpoint == Checkpoint(t, s.targetCheckpoint)
       IN distanceToCheckpointSq(s, t)
            <= Dist2(otherCar.x, otherCar.y, checkpoint.x, checkpoint.y)
  ELSE FALSE

isAheadOf(s, otherCar, t) ==
  IF s.targetCheckpoint = Undefined \/ otherCar.targetCheckpoint = Undefined
  THEN FALSE
  ELSE IF s.targetCheckpoint > otherCar.targetCheckpoint THEN TRUE
  ELSE IF s.targetCheckpoint = otherCar.targetCheckpoint
  THEN LET myDistance == distanceToCheckpointSq(s, t)
           checkpoint == Checkpoint(t, s.targetCheckpoint)
           otherDistance ==
             Dist2(otherCar.x, otherCar.y, checkpoint.x, checkpoint.y)
       IN myDistance < otherDistance
  ELSE FALSE

\* the scan with dist <= closestDist: the last waypoint at minimal distance
RECURSIVE closestLoopLast(_, _, _, _)
closestLoopLast(s, i, closestDist, closestIndex) ==
  IF i < Len(s.racingLine)
  THEN LET point == s.racingLine[i + 1]
           dist  == Dist2(s.x, s.y, point.x, point.y)
       IN IF closestDist < 0 \/ dist <= closestDist
          THEN closestLoopLast(s, i + 1, dist, i)
          ELSE closestLoopLast(s, i + 1, closestDist, closestIndex)
  ELSE closestIndex

\* the scan of getTargetRacingPoint: the first waypoint at minimal distance;
\* closestDist < 0 stands for Infinity
RECURSIVE closestLoop(_, _, _, _)
closestLoop(s, i, closestDist, closestIndex) ==
  IF i < Len(s.racingLine)
  THEN LET point == s.racingLine[i + 1]
           dist  == Dist2(s.x, s.y, point.x, point.y)
       IN IF closestDist < 0 \/ dist < closestDist
          THEN closestLoop(s, i + 1, dist, i)
          ELSE closestLoop(s, i + 1, closestDist, closestIndex)
  ELSE closestIndex

lookAheadIndex(s) == (closestLoop(s, 0, -1, 0) + LookAhead) % Len(s.racingLine)

getTargetRacingPoint(s) == s.racingLine[lookAheadIndex(s) + 1]

\* one sensor of checkSensors: 1.0 in bounds, 0.5 out of bounds (tenths)
sensorReading(s, t, sensor) ==
  LET sensorAngle == s.angle + sensor.angle
      projectedX  == s.x + RoundDiv(Sin(sensorAngle) * sensor.distance, 1000)
      projectedY  == s.y - RoundDiv(Cos(sensorAngle) * sensor.distance, 1000)
  IN IF ~isPointOutOfBounds(t, projectedX, projectedY) THEN 10 ELSE 5

checkSensors(s, t) ==
  [i \in 1..Len(avoidanceSensors) |-> sensorReading(s, t, avoidanceSensors[i])]

-----------------------------------------------------------------------------------------------------------------------------------------------------
(* AICar: the decision pass *)

\* v evaluated once and handed to F (statements run in sequence: each sees
\* the value the one before it left)
Then(v, F(_)) == CHOOSE r \in {F(w) : w \in {v}} : TRUE

\* a call of a Car method made by the driver
CarOp(s, op, arg) ==
  CASE op = "accelerate"         -> accelerate(s, arg)
    [] op = "brake"              -> brake(s, arg)
    [] op = "releaseAccelerator" -> releaseAccelerator(s, arg)
    [] op = "turnLeft"           -> turnLeft(s, arg)
    [] op = "turnRight"          -> turnRight(s, arg)
    [] op = "activateBoost"      -> activateBoost(s)
    [] op = "deactivateBoost"    -> deactivateBoost(s)
    [] op = "Car.update"         -> CarUpdate(s, arg)
    [] op = "handleCollision"    -> handleCollision(s)
    [] OTHER                     -> s

Event(op, arg) == [op |-> op, arg |-> arg]

\* the call applied to the car and recorded in the log; m = [car, log]
Do(m, op, arg) ==
  Then(m, LAMBDA v :
    [car |-> CarOp(v.car, op, arg), log |-> Append(v.log, Event(op, arg))])

\* an entry of the log that is no Car method
Note(m, op) ==
  Then(m, LAMBDA v : [v EXCEPT !.log = Append(v.log, Event(op, 0))])

\* let angleDiff = targetAngle - this.angle, then the two while loops
normalizeAngleDiff(angleDiff) == WrapAngle(angleDiff)

\* the heading error of a pass whose steering target is racingTarget
headingError(s, racingTarget) ==
  LET dx == racingTarget.x - s.x
      dy == racingTarget.y - s.y
      targetAngle == Atan2(dx, -dy)
  IN normalizeAngleDiff(targetAngle - s.angle)

\* the flag taken from the central sensor alone
someBelowClearCentral(sensorReadings) == sensorReadings[2] < 10

\* sensorReadings.some(r => r < 1.0)
someBelowClear(sensorReadings) ==
  \E i \in 1..Len(sensorReadings) : sensorReadings[i] < 10

\* steer with the factor 1.0 whatever the flag
steerFlat(m, angleDiff, hasCollisionAhead) ==
  LET duration == m.car.reactionTime
  IN IF angleDiff > 100 THEN Do(m, "turnRight", duration)
     ELSE IF angleDiff < -100 THEN Do(m, "turnLeft", duration)
     ELSE m

\* the turn issued by a pass
steer(m, angleDiff, hasCollisionAhead) ==
  LET steeringFactor == IF hasCollisionAhead THEN 15 ELSE 10
      duration == (m.car.reactionTime * steeringFactor) \div 10
  IN IF angleDiff > 100 THEN Do(m, "turnRight", duration)
     ELSE IF angleDiff < -100 THEN Do(m, "turnLeft", duration)
     ELSE m

\* insideEnvelope with || for &&
insideEnvelopeEither(angleDiff, hasCollisionAhead) ==
  ~hasCollisionAhead \/ Abs(angleDiff) < 800

\* !hasCollisionAhead && Math.abs(angleDiff) < 0.8
insideEnvelope(angleDiff, hasCollisionAhead) ==
  ~hasCollisionAhead /\ Abs(angleDiff) < 800

\* the drift roll of the committed branch
wantsDrift(s, angleDiff, rnd) ==
  /\ Abs(angleDiff) > 400
  /\ getSpeed(s) * 10 > s.preferredSpeed * 7
  /\ rnd.drift < s.driftProbability

\* wantsBoost without shouldBoost
wantsBoostAnywhere(s, playerCar, t, rnd) ==
  rnd.boost * 5 < s.aggressiveness

\* shouldBoost && Math.random() < this.aggressiveness * 0.2
wantsBoost(s, playerCar, t, rnd) ==
  LET isAheadOfPlayer == isAheadOf(s, playerCar, t)
      shouldBoost ==
        \/ ~isAheadOfPlayer
        \/ /\ distanceToCheckpointSq(s, t) > 150 * 150
           /\ rnd.stretch < s.difficulty * 2
  IN shouldBoost /\ rnd.boost * 5 < s.aggressiveness

\* throttle that accelerates whatever the speed
throttleAlways(m) ==
  Then([m EXCEPT !.log = Append(m.log, Event("getSpeed", getSpeed(m.car)))],
       LAMBDA m1 : Do(m1, "accelerate", m1.car.reactionTime))

\* the throttle of the committed branch; the speed it read is logged
throttle(m) ==
  Then([m EXCEPT !.log = Append(m.log, Event("getSpeed", getSpeed(m.car)))],
       LAMBDA m1 :
         IF getSpeed(m1.car) < m1.car.preferredSpeed
         THEN Do(m1, "accelerate", m1.car.reactionTime)
         ELSE Do(m1, "releaseAccelerator", m1.car.reactionTime))

\* the boost decision of the committed branch
boost(m, playerCar, t, rnd) ==
  IF wantsBoost(m.car, playerCar, t, rnd)
  THEN Do(m, "activateBoost", 0)
  ELSE Do(m, "deactivateBoost", 0)

\* the committed branch: drift roll, throttle, boost roll
commit(m, angleDiff, playerCar, t, rnd) ==
  Then([m EXCEPT !.car.drifting = wantsDrift(m.car, angleDiff, rnd)],
       LAMBDA m1 :
         Then(throttle(m1), LAMBDA m2 : boost(m2, playerCar, t, rnd)))

\* recover that leaves the drifting flag as it was
recoverKeepDrift(m) ==
  Then(Do(m, "brake", m.car.reactionTime), LAMBDA m1 :
    Do(m1, "deactivateBoost", 0))

\* the recovery branch: brake, cancel boost, cancel drift
recover(m) ==
  Then(Do(m, "brake", m.car.reactionTime), LAMBDA m1 :
    Then(Do(m1, "deactivateBoost", 0), LAMBDA m2 :
      [m2 EXCEPT !.car.drifting = FALSE]))

isNear(s, playerCar) ==
  distanceToPlayerSq(s, playerCar) < ProximityThreshold * ProximityThreshold

\* adaptAggressiveness without the cap at 1.0
adaptAggressivenessUncapped(s, playerCar) ==
  IF isNear(s, playerCar)
  THEN s.aggressiveness + 100
  ELSE s.difficulty * 8

\* the aggressiveness after a pass
adaptAggressiveness(s, playerCar) ==
  IF isNear(s, playerCar)
  THEN Min(1000, s.aggressiveness + 100)
  ELSE s.difficulty * 8

NoPass ==
  [ ran |-> FALSE, angleDiff |-> 0, hasCollisionAhead |-> FALSE,
    sensorReadings |-> <<>>, target |-> 0, speed |-> 0, near |-> FALSE,
    before |-> 0, drifting |-> FALSE, boosting |-> FALSE,
    x |-> 0, y |-> 0, angle |-> 0, targetCheckpoint |-> 0, driftRoll |-> -1 ]

\* the Math.random() of the drift condition is reached (&& short-circuits)
driftRollDrawn(s, angleDiff, hasCollisionAhead) ==
  /\ insideEnvelope(angleDiff, hasCollisionAhead)
  /\ Abs(angleDiff) > 400
  /\ getSpeed(s) * 10 > s.preferredSpeed * 7

\* what a pass computed and the pose it started from, kept for the
\* properties; driftRoll is -1 when the drift roll was not drawn
PassRecord(s, target, angleDiff, sensorReadings, playerCar, after, rnd) ==
  [ ran |-> TRUE, angleDiff |-> angleDiff,
    x |-> s.x, y |-> s.y, angle |-> s.angle,
    targetCheckpoint |-> s.targetCheckpoint,
    driftRoll |-> IF driftRollDrawn(s, angleDiff,
                                    someBelowClear(sensorReadings))
                  THEN rnd.drift ELSE -1,
    hasCollisionAhead |-> someBelowClear(sensorReadings),
    sensorReadings |-> sensorReadings,
    target |-> target,
    speed |-> getSpeed(s),
    near |-> isNear(after, playerCar),
    before |-> s.aggressiveness,
    drifting |-> after.drifting,
    boosting |-> after.boosting ]

\* steering, then one of the two branches
drive(m, angleDiff, hasCollisionAhead, playerCar, t, rnd) ==
  Then(steer(m, angleDiff, hasCollisionAhead), LAMBDA m1 :
    IF insideEnvelope(angleDiff, hasCollisionAhead)
    THEN commit(m1, angleDiff, playerCar, t, rnd)
    ELSE recover(m1))

\* what a pass reads before it acts: the index of the steering target, the
\* heading error and the sensor readings
sense(s, t) ==
  Then(lookAheadIndex(s), LAMBDA target :
    <<target, headingError(s, s.racingLine[target + 1]), checkSensors(s, t)>>)

\* makeDecisions on the machine m (a value): the machine after the pass
\* and what the pass computed
makeDecisions(m, playerCar, t, rnd) ==
  Then(sense(m.car, t), LAMBDA sensed :
    Then(drive(Note(m, "makeDecisions"), sensed[2], someBelowClear(sensed[3]),
               playerCar, t, rnd),
         LAMBDA m2 :
           [ car  |-> [m2.car EXCEPT !.aggressiveness =
                                       adaptAggressiveness(m2.car, playerCar)],
             log  |-> m2.log,
             pass |-> PassRecord(m.car, sensed[1], sensed[2], sensed[3],
                                 playerCar, m2.car, rnd) ]))

-----
(* AICar.update *)

\* update called without a playerCar argument
NoOpponent ==
  [present |-> FALSE, x |-> 0, y |-> 0, targetCheckpoint |-> Undefined]

Opponent(x, y, targetCheckpoint) ==
  [present |-> TRUE, x |-> x, y |-> y, targetCheckpoint |-> targetCheckpoint]

\* decisionDue with > for >=
decisionDueStrict(s, playerCar) ==
  s.lastDecision > s.reactionTime /\ playerCar.present

\* this.lastDecision >= this.reactionTime && playerCar
decisionDue(s, playerCar) ==
  s.lastDecision >= s.reactionTime /\ playerCar.present

\* decide with the timer left running when the pass is made
decideKeepTimer(s, deltaTime, playerCar, t, rnd) ==
  Then([s EXCEPT !.lastDecision = s.lastDecision + deltaTime], LAMBDA s1 :
    IF decisionDue(s1, playerCar)
    THEN Then([car |-> s1, log |-> <<>>],
              LAMBDA m : makeDecisions(m, playerCar, t, rnd))
    ELSE [car |-> s1, log |-> <<>>, pass |-> NoPass])

\* the first half of update: the timer and, when due, the pass
decide(s, deltaTime, playerCar, t, rnd) ==
  Then([s EXCEPT !.lastDecision = s.lastDecision + deltaTime], LAMBDA s1 :
    IF decisionDue(s1, playerCar)
    THEN Then([car |-> [s1 EXCEPT !.lastDecision = 0], log |-> <<>>],
              LAMBDA m : makeDecisions(m, playerCar, t, rnd))
    ELSE [car |-> s1, log |-> <<>>, pass |-> NoPass])

\* advanceCheckpoint without the wrap
advanceCheckpointNoWrap(m, t) ==
  IF distanceToCheckpointSq(m.car, t) < CheckpointRadius * CheckpointRadius
  THEN [m EXCEPT !.car.targetCheckpoint = m.car.targetCheckpoint + 1,
                 !.log = Append(m.log, Event("advance", 0))]
  ELSE m

\* the checkpoint test that ends update
advanceCheckpoint(m, t) ==
  IF distanceToCheckpointSq(m.car, t) < CheckpointRadius * CheckpointRadius
  THEN [m EXCEPT !.car.targetCheckpoint =
                    (m.car.targetCheckpoint + 1) % CheckpointCount(t),
                 !.log = Append(m.log, Event("advance", 0))]
  ELSE m

\* integrate with the checkpoint test moved before super.update
integrateTestFirst(d, deltaTime, t) ==
  Then(Note([car |-> d.car, log |-> d.log], "checkpointTest"), LAMBDA m1 :
    Then(advanceCheckpoint(m1, t), LAMBDA m2 :
      Then(Do(m2, "Car.update", deltaTime), LAMBDA m3 :
        [car |-> m3.car, log |-> m3.log, pass |-> d.pass])))

\* the second half of update: super.update, then the checkpoint test
integrate(d, deltaTime, t) ==
  Then(Do([car |-> d.car, log |-> d.log], "Car.update", deltaTime),
       LAMBDA m1 :
         Then(Note(m1, "checkpointTest"), LAMBDA m2 :
           Then(advanceCheckpoint(m2, t), LAMBDA m3 :
             [car |-> m3.car, log |-> m3.log, pass |-> d.pass])))

\* update(deltaTime, playerCar?)
update(s, deltaTime, playerCar, t, rnd) ==
  Then(decide(s, deltaTime, playerCar, t, rnd), LAMBDA d :
    integrate(d, deltaTime, t))

-----
(* The driver in use: construction, then update calls *)

\* difficulty arguments of the constructor (hundredths), out of range too
Difficulties == {-50, 0, 85, 100, 150, 250}

\* poses at which a driver is constructed: in the middle of the track with
\* the steering target straight ahead and to the right, on the racing line
\* with the target directly behind, along the upper boundary, and on the
\* approach to the first checkpoint, and more than 150 away from it
Poses ==
  { [x |-> 200, y |-> 152, angle |-> -943],
    [x |-> 200, y |-> 152, angle |-> -1443],
    [x |-> 230, y |-> 125, angle |-> HalfPI],
    [x |-> 100, y |-> 10,  angle |-> 1824],
    [x |-> 120, y |-> 100, angle |-> 2400],
    [x |-> 330, y |-> 200, angle |-> -1251] }

\* elapsed times passed by the frame loop, in milliseconds
DeltaTimes == {60, 250}

\* the playerCar arguments
Opponents ==
  { NoOpponent, Opponent(200, 140, 0), Opponent(390, 290, 0) }

\* outcomes of Math.random(), in thousandths
Rolls == {0, 999}

NoQuery == [me |-> NoOpponent, other |-> NoOpponent]

\* before any gameLoop callback
NoFrame ==
  [ deltaTime |-> 0, trace |-> <<>>, contact |-> FALSE,
    aiSaw |-> NoOpponent, aiLeft |-> NoOpponent, crossing |-> "none" ]

\* the initial value of the gameStats state: the boost meter in tenths,
\* times in milliseconds, bestLapTime -1 for Infinity
GameStatsNew ==
  [ speed |-> 0, lap |-> 0, bestLapTime |-> -1, currentLapTime |-> 0,
    raceTime |-> 0, boost |-> 1000, driftDistance |-> 0, boostTime |-> 0 ]

\* the component as mounted: no key down, no frame yet
InitLoop ==
  /\ player = CarNew(TrackNew.startPosition.x, TrackNew.startPosition.y,
                     TrackNew.startAngle)
  /\ keysPressed = {}
  /\ lastTimestamp = 0
  /\ playerSensorReadings = <<>>
  /\ gameStats = GameStatsNew
  /\ closure = GameStatsNew
  /\ frame = NoFrame

\* a session that was started with 2D graphics in race mode and whose
\* driver was then replaced by an AICar with the 'a' key: the second game
\* loop is running
InitStarted ==
  /\ showModePicker = FALSE
  /\ render3D = FALSE
  /\ gameMode = "race"
  /\ cameraMode = "follow"
  /\ showUI = TRUE
  /\ gameLoaded = TRUE
  /\ aiType = "basic"
  /\ aiKind = "basic"
  /\ camera = [mode |-> "follow"]
  /\ ids = [track |-> 1, playerCar |-> 1, aiCar |-> 2, camera |-> 1]
  /\ built = 2
  /\ requestRef = 2
  /\ scheduled = {2}
  /\ cleanups = [setup |-> TRUE, loop |-> TRUE]
  /\ loops = 2
  /\ events = 0

Init ==
  /\ InitLoop
  /\ InitStarted
  /\ track = TrackNew
  /\ \E p \in Poses, d \in Difficulties :
       ai = AICarNew(p.x, p.y, p.angle, TrackNew, d)
  /\ call = [deltaTime |-> 0, playerCar |-> NoOpponent]
  /\ log = <<>>
  /\ pass = NoPass
  /\ nUpdates = 0
  /\ query = NoQuery
  /\ answer = FALSE

\* the Math.random() outcomes a call can consume: none when no pass is due
RollsFor(s, deltaTime, playerCar) ==
  IF decisionDue([s EXCEPT !.lastDecision = s.lastDecision + deltaTime],
                 playerCar)
  THEN [drift : Rolls, stretch : Rolls, boost : Rolls]
  ELSE {[drift |-> 0, stretch |-> 0, boost |-> 0]}

AIUpdate ==
  /\ nUpdates < MaxUpdates
  /\ \E deltaTime \in DeltaTimes, playerCar \in Opponents :
       \E rnd \in RollsFor(ai, deltaTime, playerCar) :
         \E r \in {update(ai, deltaTime, playerCar, track, rnd)} :
           /\ ai' = r.car
           /\ log' = r.log
           /\ pass' = r.pass
           /\ call' = [deltaTime |-> deltaTime, playerCar |-> playerCar]
  /\ nUpdates' = nUpdates + 1
  /\ UNCHANGED <<track, query, answer>>
  /\ UNCHANGED loopVars
  /\ UNCHANGED sessionVars

Next == AIUpdate

Spec == Init /\ [][Next]_vars

-----------------------------------------------------------------------------
(* Direct evaluation of isAheadOf on arbitrary pairs of cars *)

CarSpots == { [x |-> 200, y |-> 152], [x |-> 200, y |-> 108],
              [x |-> 180, y |-> 130] }

Cursors(t) == {Undefined} \cup (0..(CheckpointCount(t) - 1))

InitAhead ==
  /\ InitLoop
  /\ InitStarted
  /\ track = TrackNew
  /\ ai = AICarNew(200, 152, 0, TrackNew, 85)
  /\ call = [deltaTime |-> 0, playerCar |-> NoOpponent]
  /\ log = <<>>
  /\ pass = NoPass
  /\ nUpdates = 0
  /\ query = NoQuery
  /\ answer = FALSE

Ask ==
  /\ \E p \in CarSpots, q \in CarSpots,
        i \in Cursors(track), j \in Cursors(track) :
       LET me    == Opponent(p.x, p.y, i)
           other == Opponent(q.x, q.y, j)
       IN /\ query' = [me |-> me, other |-> other]
          /\ answer' = isAheadOf(me, other, track)
  /\ UNCHANGED <<track, ai, call, log, pass, nUpdates>>
  /\ UNCHANGED loopVars
  /\ UNCHANGED sessionVars

SpecAhead == InitAhead /\ [][Ask]_vars

-----------------------------------------------------------------------------
(* GameCanvas: the gameLoop callback (the 3D and the 2D loop run the same
   steps on the cars) and the key handlers *)

\* a step of the callback: who was called, what, with which argument
Step(who, op, arg) == [who |-> who, op |-> op, arg |-> arg]

\* a call of a Car method on playerCar; w is the world of the callback:
\* the objects it holds and the record of what it did
PlayerDo(w, op, arg) ==
  Then(w, LAMBDA v :
    [v EXCEPT !.player = CarOp(v.player, op, arg),
              !.trace = Append(v.trace, Step("playerCar", op, arg))])

\* lastTimestamp.current ? (timestamp - lastTimestamp.current) / 1000 : 0.016
elapsed(last, timestamp) == IF last # 0 THEN timestamp - last ELSE 16

\* keys[a] || keys[b]
held(keys, a, b) == a \in keys \/ b \in keys

\* the throttle and steering controls of the player
controls(w, keys, deltaTime) ==
  Then(IF held(keys, "ArrowUp", "w") THEN PlayerDo(w, "accelerate", deltaTime)
       ELSE IF held(keys, "ArrowDown", "s")
            THEN PlayerDo(w, "brake", deltaTime)
            ELSE PlayerDo(w, "releaseAccelerator", deltaTime),
       LAMBDA w1 :
         Then(IF held(keys, "ArrowLeft", "a")
              THEN PlayerDo(w1, "turnLeft", deltaTime) ELSE w1,
              LAMBDA w2 :
                IF held(keys, "ArrowRight", "d")
                THEN PlayerDo(w2, "turnRight", deltaTime) ELSE w2))

\* playerCar.maxVelocity = 300 * modeConfig.physics.boostMultiplier
physics(w) ==
  [w EXCEPT !.player.maxVelocity = (300 * BoostMultiplierTenths) \div 10]

\* the pose a Track query is made for
Pose(car) == [x |-> car.x, y |-> car.y, angle |-> car.angle]

\* playerSensorReadings.current = RayCaster.castRays(pose, track, 7, 150,
\* Math.PI * 0.6)
sensePlayer(w) ==
  Then(Pose(w.player), LAMBDA pose :
    [w EXCEPT !.readings = castRays(pose, w.track, 7, 150, (PI * 6) \div 10),
              !.trace = Append(w.trace, Step("track", "castRays", pose))])

\* keys[' '] && gameStats.boost > 0, gameStats being the value the
\* callback closed over; the meter itself is updated from its latest value
boostControl(w, keys, captured, deltaTime) ==
  IF " " \in keys /\ captured.boost > 0
  THEN Then(PlayerDo(w, "activateBoost", 0), LAMBDA w1 :
         [w1 EXCEPT !.gameStats.boost = Max(0, w1.gameStats.boost - 10),
                    !.gameStats.boostTime =
                       w1.gameStats.boostTime + deltaTime])
  ELSE Then(PlayerDo(w, "deactivateBoost", 0), LAMBDA w1 :
         [w1 EXCEPT !.gameStats.boost = Min(1000, w1.gameStats.boost + 2)])

\* the playerCar argument of aiCar.update, as the driver reads it
Seen(car) == Opponent(car.x, car.y, car.targetCheckpoint)

\* aiCar.update that brakes the opponent it was given
updateAIBraking(w, deltaTime, rnd) ==
  Then(update(w.ai, deltaTime, Seen(w.player), w.track, rnd), LAMBDA r :
    [w EXCEPT !.ai = r.car, !.aiLog = r.log, !.pass = r.pass,
              !.player = brake(w.player, deltaTime),
              !.aiSaw = w.player,
              !.aiLeft = brake(w.player, deltaTime),
              !.trace = Append(w.trace, Step("aiCar", "update", deltaTime))])

\* aiCar.update(deltaTime, playerCar): the driver's own state changes; what
\* it was given and what it left of it are recorded
updateAI(w, deltaTime, rnd) ==
  Then(update(w.ai, deltaTime, Seen(w.player), w.track, rnd), LAMBDA r :
    [w EXCEPT !.ai = r.car, !.aiLog = r.log, !.pass = r.pass,
              !.aiSaw = w.player,
              !.aiLeft = w.player,
              !.trace = Append(w.trace, Step("aiCar", "update", deltaTime))])

\* the drift distance of the statistics
driftStats(w, deltaTime) ==
  IF w.player.drifting
  THEN [w EXCEPT !.gameStats.driftDistance =
                    w.gameStats.driftDistance
                      + (getSpeed(w.player) * deltaTime) \div 1000]
  ELSE w

\* Math.min(...playerSensorReadings.current)
minReading(readings) ==
  CHOOSE m \in {readings[i] : i \in 1..Len(readings)} :
    \A i \in 1..Len(readings) : m <= readings[i]

\* minSensorReading < 15
inContact(readings) == minReading(readings) < 15

\* the collision test on the readings taken earlier in the callback
collide(w) ==
  IF inContact(w.readings) THEN PlayerDo(w, "handleCollision", 0) ELSE w

\* track.checkCheckpoint(playerCar) and the lap bookkeeping; lapTime and
\* newLap come from the gameStats value the callback closed over
checkpoints(w, captured) ==
  Then(checkCheckpoint(w.track, w.player), LAMBDA c :
    Then([w EXCEPT !.player = c.car,
                   !.crossing = c.result,
                   !.trace = Append(w.trace,
                                    Step("track", "checkCheckpoint",
                                         Pose(w.player)))],
         LAMBDA w1 :
           IF c.result = "finish"
           THEN LET lapTime == captured.currentLapTime
                    best == w1.gameStats.bestLapTime
                IN [w1 EXCEPT !.gameStats.lap = captured.lap + 1,
                              !.gameStats.bestLapTime =
                                 IF best < 0 \/ lapTime < best
                                 THEN lapTime ELSE best,
                              !.gameStats.currentLapTime = 0]
           ELSE w1))

\* the statistics update that ends the callback, then the next frame is
\* requested
finish(w, deltaTime) ==
  [w EXCEPT !.gameStats.speed = RoundDiv(getSpeed(w.player) * 36, 10),
            !.gameStats.currentLapTime =
               w.gameStats.currentLapTime + deltaTime,
            !.gameStats.raceTime = w.gameStats.raceTime + deltaTime,
            !.trace = Append(w.trace,
                             Step("window", "requestAnimationFrame", 0))]

\* gameLoop(timestamp) from the controls to the request of the next frame
gameLoop(w, keys, captured, deltaTime, rnd) ==
  Then(controls(w, keys, deltaTime), LAMBDA w1 :
   Then(sensePlayer(physics(w1)), LAMBDA w2 :
    Then(boostControl(w2, keys, captured, deltaTime), LAMBDA w3 :
     Then(PlayerDo(w3, "Car.update", deltaTime), LAMBDA w4 :
      Then(updateAI(w4, deltaTime, rnd), LAMBDA w5 :
       Then(collide(driftStats(w5, deltaTime)), LAMBDA w6 :
        finish(checkpoints(w6, captured), deltaTime)))))))

-----------------------------------------------------------------------------
(* The frame loop in use *)

MaxFrames == 6

\* gaps between consecutive animation-frame timestamps, in milliseconds: a
\* regular frame and the first frame after the page was in the background
Gaps == {16, 2000}

\* the keys of the model
Keys == {"ArrowUp", "ArrowDown", "ArrowLeft", "ArrowRight", " "}

\* the session as started: both cars on the start line, the driver an AICar
\* of difficulty 0.85
InitFrames ==
  /\ InitLoop
  /\ InitStarted
  /\ track = TrackNew
  /\ ai = AICarNew(TrackNew.startPosition.x + 40, TrackNew.startPosition.y,
                   TrackNew.startAngle, TrackNew, 85)
  /\ call = [deltaTime |-> 0, playerCar |-> NoOpponent]
  /\ log = <<>>
  /\ pass = NoPass
  /\ nUpdates = 0
  /\ query = NoQuery
  /\ answer = FALSE

\* handleKeyDown: keysPressed.current[e.key] = true; in the runs of the
\* model the player settles the keys before the first frame and holds them
KeyDown ==
  /\ lastTimestamp = 0
  /\ \E k \in Keys \ keysPressed : keysPressed' = keysPressed \cup {k}
  /\ UNCHANGED <<player, lastTimestamp, playerSensorReadings, gameStats,
                 closure, frame>>
  /\ UNCHANGED driverVars
  /\ UNCHANGED sessionVars

\* the keys that are commands of the session
CommandKeys == {"a", "c", "u"}

\* handleKeyUp: keysPressed.current[e.key] = false (and cAlreadyPressed with
\* the 'c' key); the driving keys are held once the frames have begun
KeyUp ==
  /\ \E k \in keysPressed :
       /\ lastTimestamp = 0 \/ k \in CommandKeys
       /\ keysPressed' = keysPressed \ {k}
  /\ UNCHANGED <<player, lastTimestamp, playerSensorReadings, gameStats,
                 closure, frame>>
  /\ UNCHANGED driverVars
  /\ UNCHANGED sessionVars

\* the gameLoop callback called with a timestamp, Math.random() giving rnd:
\* it runs to its end and requests the next frame
RunLoop(timestamp, rnd) ==
  /\ scheduled # {}
  /\ LET deltaTime == elapsed(lastTimestamp, timestamp)
         w0 == [ player |-> player, ai |-> ai, track |-> track,
                 gameStats |-> gameStats, readings |-> playerSensorReadings,
                 trace |-> <<>>, aiLog |-> <<>>, pass |-> NoPass,
                 aiSaw |-> NoOpponent, aiLeft |-> NoOpponent,
                 crossing |-> "none" ]
     IN \E w \in {gameLoop(w0, keysPressed, closure, deltaTime, rnd)} :
          /\ lastTimestamp' = timestamp
          /\ player' = w.player
          /\ ai' = w.ai
          /\ track' = w.track
          /\ gameStats' = w.gameStats
          /\ playerSensorReadings' = w.readings
          /\ log' = w.aiLog
          /\ pass' = w.pass
          /\ call' = [deltaTime |-> deltaTime, playerCar |-> Seen(w.aiSaw)]
          /\ frame' = [ deltaTime |-> deltaTime, trace |-> w.trace,
                        contact |-> inContact(w.readings),
                        aiSaw |-> w.aiSaw, aiLeft |-> w.aiLeft,
                        crossing |-> w.crossing ]
  /\ nUpdates' = nUpdates + 1
  /\ \E loop \in scheduled : requestRef' = loop
  /\ UNCHANGED <<keysPressed, closure, query, answer>>
  /\ UNCHANGED <<showModePicker, render3D, gameMode, cameraMode, showUI,
                 gameLoaded, aiType, aiKind, camera, ids, built, scheduled,
                 cleanups, loops, events>>

\* one animation frame: the browser calls the gameLoop callback it holds
Frame ==
  /\ nUpdates < MaxFrames
  /\ scheduled # {}
  /\ \E gap \in Gaps :
       \E rnd \in RollsFor(ai, elapsed(lastTimestamp, lastTimestamp + gap),
                           Seen(player)) :
         RunLoop(lastTimestamp + gap, rnd)

NextFrames == KeyDown \/ KeyUp \/ Frame

SpecFrames == InitFrames /\ [][NextFrames]_vars

-----------------------------------------------------------------------------
(* A long run of regular frames: the keys are settled before the first
   frame, every frame comes 16 ms after the one before, and Math.random()
   returns a value above every probability of the driver *)

MaxSteadyFrames == 104

NoLuck == [drift |-> 999, stretch |-> 999, boost |-> 999]

SteadyFrame ==
  /\ nUpdates < MaxSteadyFrames
  /\ RunLoop(lastTimestamp + 16, NoLuck)

NextSteady == KeyDown \/ KeyUp \/ SteadyFrame

SpecSteady == InitFrames /\ [][NextSteady]_vars

-----------------------------------------------------------------------------
(* GameCanvas: the session. The effects and the handlers of the component
   read and write its state and refs, taken together here as one record m.
   React runs the effects whose dependencies changed in a commit (cleanups
   first) before the next event or animation frame is handled. *)

\* null, of a state that holds no object yet
Null == [null |-> TRUE]

\* the camera modes in the order the 'c' key cycles through them
CameraModes == <<"follow", "chase", "overhead", "cinematic", "fixed">>

GameModes == {"race", "challenge"}

\* GameMode.getConfig(mode).difficultyMultiplier, in hundredths
difficultyMultiplier(mode) == IF mode = "race" THEN 85 ELSE 100

Component ==
  [ showModePicker |-> showModePicker, render3D |-> render3D,
    gameMode |-> gameMode, cameraMode |-> cameraMode, showUI |-> showUI,
    gameLoaded |-> gameLoaded, track |-> track, playerCar |-> player,
    aiCar |-> ai, aiKind |-> aiKind, camera |-> camera, ids |-> ids,
    built |-> built, gameStats |-> gameStats, aiType |-> aiType,
    requestRef |-> requestRef, scheduled |-> scheduled,
    cleanups |-> cleanups, loops |-> loops, closure |-> closure ]

\* the state the component goes on with
Becomes(m) ==
  /\ showModePicker' = m.showModePicker
  /\ render3D' = m.render3D
  /\ gameMode' = m.gameMode
  /\ cameraMode' = m.cameraMode
  /\ showUI' = m.showUI
  /\ gameLoaded' = m.gameLoaded
  /\ track' = m.track
  /\ player' = m.playerCar
  /\ ai' = m.aiCar
  /\ aiKind' = m.aiKind
  /\ camera' = m.camera
  /\ ids' = m.ids
  /\ built' = m.built
  /\ gameStats' = m.gameStats
  /\ aiType' = m.aiType
  /\ requestRef' = m.requestRef
  /\ scheduled' = m.scheduled
  /\ cleanups' = m.cleanups
  /\ loops' = m.loops
  /\ closure' = m.closure

\* canvasRef.current: the canvas element is rendered with 2D graphics only
canvas(m) == ~m.render3D

\* if (requestRef.current) cancelAnimationFrame(requestRef.current)
cancelRequest(m) ==
  IF m.requestRef # 0
  THEN [m EXCEPT !.scheduled = m.scheduled \ {m.requestRef}]
  ELSE m

\* the cleanup the session set-up effect returned, if it returned one
setupCleanup(m) == IF m.cleanups.setup THEN cancelRequest(m) ELSE m

\* a game loop effect whose cleanup leaves the requested frame alone
loopCleanupForgetful(m) == m

\* the cleanup the game loop effect returned, if it returned one
loopCleanup(m) == IF m.cleanups.loop THEN cancelRequest(m) ELSE m

\* the session set-up effect: nothing while the mode picker is shown or
\* without a canvas; else a new Track, Car, EnhancedAICar and Camera
setupEffect(m) ==
  IF m.showModePicker \/ ~canvas(m)
  THEN [m EXCEPT !.cleanups.setup = FALSE]
  ELSE LET n == m.built + 1
           newTrack == TrackNew
           start == newTrack.startPosition
       IN [m EXCEPT
             !.track = newTrack,
             !.playerCar =
                [CarNew(start.x, start.y, newTrack.startAngle)
                   EXCEPT !.maxVelocity = (300 * BoostMultiplierTenths) \div 10],
             !.aiCar = AICarNew(start.x + 40, start.y, newTrack.startAngle,
                                newTrack, difficultyMultiplier(m.gameMode)),
             !.aiKind = "enhanced",
             !.camera = [mode |-> m.cameraMode],
             !.ids = [track |-> n, playerCar |-> n, aiCar |-> n,
                      camera |-> n],
             !.built = n,
             !.gameLoaded = TRUE,
             !.cleanups.setup = TRUE]

\* the game loop effect: nothing before the session is loaded or without a
\* canvas; else a gameLoop closed over the state of this render is requested
loopEffect(m) ==
  IF \/ ~m.gameLoaded
     \/ m.ids.playerCar = 0 \/ m.ids.track = 0
     \/ m.ids.aiCar = 0 \/ m.ids.camera = 0
     \/ ~canvas(m)
  THEN [m EXCEPT !.cleanups.loop = FALSE]
  ELSE LET loop == m.loops + 1
       IN [m EXCEPT !.loops = loop,
                    !.scheduled = m.scheduled \cup {loop},
                    !.requestRef = loop,
                    !.closure = m.gameStats,
                    !.cleanups.loop = TRUE]

\* a commit that changed a dependency of the game loop effect
rerunLoop(m) == loopEffect(loopCleanup(m))

\* a commit that changed a dependency of the session set-up effect; the
\* objects it sets change the dependencies of the game loop effect
rerunSetup(m) ==
  Then(setupEffect(setupCleanup(m)), LAMBDA m1 :
    IF m1.ids # m.ids THEN rerunLoop(m1) ELSE m1)

\* modes[(currentIndex + 1) % modes.length]
nextMode(mode) ==
  LET i == CHOOSE j \in 1..Len(CameraModes) : CameraModes[j] = mode
  IN CameraModes[(i % Len(CameraModes)) + 1]

-----------------------------------------------------------------------------
(* The session in use: from the mounted component *)

MaxEvents == 3

MaxTicks == 2

\* the component as mounted: the mode picker shown, 3D graphics, no object
InitMounted ==
  /\ showModePicker = TRUE
  /\ render3D = TRUE
  /\ gameMode = "race"
  /\ cameraMode = "follow"
  /\ showUI = TRUE
  /\ gameLoaded = FALSE
  /\ aiType = "enhanced"
  /\ aiKind = "none"
  /\ camera = Null
  /\ ids = [track |-> 0, playerCar |-> 0, aiCar |-> 0, camera |-> 0]
  /\ built = 0
  /\ requestRef = 0
  /\ scheduled = {}
  /\ cleanups = [setup |-> FALSE, loop |-> FALSE]
  /\ loops = 0
  /\ events = 0
  /\ track = Null
  /\ player = Null
  /\ ai = Null
  /\ keysPressed = {}
  /\ lastTimestamp = 0
  /\ playerSensorReadings = <<>>
  /\ gameStats = GameStatsNew
  /\ closure = GameStatsNew
  /\ frame = NoFrame
  /\ call = [deltaTime |-> 0, playerCar |-> NoOpponent]
  /\ log = <<>>
  /\ pass = NoPass
  /\ nUpdates = 0
  /\ query = NoQuery
  /\ answer = FALSE

\* what no handler of the session touches
Untouched ==
  UNCHANGED <<lastTimestamp, playerSensorReadings, frame, call, log, pass,
              nUpdates, query, answer>>

\* the game mode Select of the picker: setGameMode(value)
SelectMode ==
  /\ events < MaxEvents
  /\ showModePicker
  /\ \E mode \in GameModes \ {gameMode} :
       Becomes(rerunSetup([Component EXCEPT !.gameMode = mode]))
  /\ events' = events + 1
  /\ UNCHANGED keysPressed
  /\ Untouched

\* the graphics mode Select of the picker and the Switch button shown once
\* the game is loaded: setRender3D
SwitchGraphics ==
  /\ events < MaxEvents
  /\ showModePicker \/ gameLoaded
  /\ Becomes(rerunLoop([Component EXCEPT !.render3D = ~render3D]))
  /\ events' = events + 1
  /\ UNCHANGED keysPressed
  /\ Untouched

\* handleModeSelect, the Start Race button of the picker
StartRace ==
  /\ events < MaxEvents
  /\ showModePicker
  /\ Becomes(rerunSetup([Component EXCEPT !.showModePicker = FALSE]))
  /\ events' = events + 1
  /\ UNCHANGED keysPressed
  /\ Untouched

\* handleKeyDown with the 'c' key: unless the key is already down, the next
\* camera mode is set in the state and on the camera
KeyDownC ==
  /\ events < MaxEvents
  /\ keysPressed' = keysPressed \cup {"c"}
  /\ IF "c" \notin keysPressed
     THEN LET next == nextMode(cameraMode)
          IN Becomes(rerunSetup(
               [Component EXCEPT
                  !.cameraMode = next,
                  !.camera = IF camera # Null THEN [mode |-> next]
                             ELSE camera]))
     ELSE Becomes(Component)
  /\ events' = events + 1
  /\ Untouched

\* handleKeyDown with the 'u' key: setShowUI(prev => !prev)
KeyDownU ==
  /\ events < MaxEvents
  /\ keysPressed' = keysPressed \cup {"u"}
  /\ Becomes(rerunLoop([Component EXCEPT !.showUI = ~showUI]))
  /\ events' = events + 1
  /\ Untouched

\* handleKeyDown with the 'a' key: aiType is toggled and, if there are a
\* track and an aiCar, a new driver of the other class is constructed at the
\* pose of the old one
KeyDownA ==
  /\ events < MaxEvents
  /\ keysPressed' = keysPressed \cup {"a"}
  /\ LET toggled == IF aiType = "basic" THEN "enhanced" ELSE "basic"
     IN IF ids.track # 0 /\ ids.aiCar # 0
        THEN Becomes(rerunLoop(
               [Component EXCEPT
                  !.aiType = toggled,
                  !.aiCar = AICarNew(ai.x, ai.y, ai.angle, track, 85),
                  !.aiKind = IF aiType = "basic" THEN "enhanced" ELSE "basic",
                  !.ids.aiCar = built + 1,
                  !.built = built + 1]))
        ELSE Becomes([Component EXCEPT !.aiType = toggled])
  /\ events' = events + 1
  /\ Untouched

\* an animation frame of the session
Tick ==
  /\ nUpdates < MaxTicks
  /\ Frame

NextSession ==
  \/ SelectMode
  \/ SwitchGraphics
  \/ StartRace
  \/ KeyDownC
  \/ KeyDownU
  \/ KeyDownA
  \/ KeyUp
  \/ Tick

SpecSession == InitMounted /\ [][NextSession]_vars

-----------------------------------------------------------------------------
(* Properties *)

Has(l, op) == \E i \in 1..Len(l) : l[i].op = op

Count(l, op) == Cardinality({i \in 1..Len(l) : l[i].op = op})

Baseline(s) == s.difficulty * 8

\* C1: in an update call with an opponent, deltaTime is added to the timer
\* first; a pass runs iff the accumulated timer is >= reactionTime, and then
\* exactly one pass runs and the timer is reset to 0; otherwise no pass runs
\* and the drift and boost flags stay as they were
C1_DecisionCadence ==
  [][ (nUpdates' = nUpdates + 1 /\ call'.playerCar.present) =>
        LET timer == ai.lastDecision + call'.deltaTime
        IN IF timer >= ai.reactionTime
           THEN /\ Count(log', "makeDecisions") = 1
                /\ pass'.ran
                /\ ai'.lastDecision = 0
           ELSE /\ Count(log', "makeDecisions") = 0
                /\ ~pass'.ran
                /\ ai'.lastDecision = timer
                /\ ai'.drifting = ai.drifting
                /\ ai'.boosting = ai.boosting ]_vars

\* a call whose deltaTime is more than twice the reaction time ran one pass
C1_Witness ==
  /\ call.playerCar.present
  /\ ai.reactionTime > 0
  /\ call.deltaTime >= 2 * ai.reactionTime
  /\ Count(log, "makeDecisions") = 1
  /\ ai.lastDecision = 0

\* C2: every update call runs Car.update(deltaTime) exactly once, after the
\* decision pass of the call (if any) and before the checkpoint test, with
\* or without an opponent
C2_IntegrationOnce ==
  nUpdates > 0 =>
    /\ Count(log, "Car.update") = 1
    /\ Count(log, "checkpointTest") = 1
    /\ \A i \in 1..Len(log) :
         log[i].op = "Car.update" =>
           /\ log[i].arg = call.deltaTime
           /\ \A k \in 1..(i - 1) :
                log[k].op \notin {"checkpointTest", "advance"}
           /\ \A k \in (i + 1)..Len(log) :
                log[k].op \in {"checkpointTest", "advance"}

\* a call without an opponent and without a pass integrated all the same
C2_Witness ==
  /\ nUpdates > 0
  /\ ~call.playerCar.present
  /\ ~pass.ran
  /\ log[1].op = "Car.update"
  /\ ai.speed = 0

\* a call that ran a pass integrated after it
C2_WitnessAfterPass ==
  /\ pass.ran
  /\ log[1].op = "makeDecisions"
  /\ Has(log, "accelerate")
  /\ log[Len(log) - 1].op = "Car.update"

\* C3: a pass with the imminent-collision flag set or |heading error| >= 0.8
\* calls brake, neither accelerate nor releaseAccelerator, deactivates boost
\* and ends with drifting false
C3_RecoveryBrakes ==
  (pass.ran /\ (pass.hasCollisionAhead \/ Abs(pass.angleDiff) >= 800)) =>
    /\ Count(log, "brake") = 1
    /\ ~Has(log, "accelerate")
    /\ ~Has(log, "releaseAccelerator")
    /\ Has(log, "deactivateBoost")
    /\ ~Has(log, "activateBoost")
    /\ ~pass.boosting
    /\ ~pass.drifting

\* the target directly behind, no boundary near: the pass braked
C3_Witness ==
  /\ pass.ran
  /\ ~pass.hasCollisionAhead
  /\ Abs(pass.angleDiff) >= 3100
  /\ Has(log, "brake")

\* C4: for a driver constructed with difficulty in [0,1], aggressiveness
\* never exceeds 1.0, however many passes ran close to the opponent
C4_AggressivenessCapped ==
  (ai.difficulty >= 0 /\ ai.difficulty <= 100) => ai.aggressiveness <= 1000

\* a pass close to the opponent in which the cap cut the increase short
C4_Witness ==
  /\ ai.difficulty >= 0 /\ ai.difficulty <= 100
  /\ pass.ran /\ pass.near
  /\ pass.before + 100 > 1000
  /\ ai.aggressiveness = 1000

\* C5: a pass away from the opponent leaves aggressiveness no farther from
\* the baseline difficulty*0.8 than before, and at the baseline; and
\* aggressiveness never drops below the baseline
C5_RelaxesToBaseline ==
  /\ ai.aggressiveness >= Baseline(ai)
  /\ (pass.ran /\ ~pass.near) =>
       /\ ai.aggressiveness = Baseline(ai)
       /\ Abs(ai.aggressiveness - Baseline(ai))
            <= Abs(pass.before - Baseline(ai))

\* C6: whatever difficulty is passed to the constructor, the stored
\* difficulty, the aggressiveness baseline and the drift probability lie in
\* [0,1] and the reaction interval is strictly positive
C6_DifficultyClamped ==
  /\ ai.difficulty >= 0 /\ ai.difficulty <= 100
  /\ Baseline(ai) >= 0 /\ Baseline(ai) <= 1000
  /\ ai.driftProbability >= 0 /\ ai.driftProbability <= 1000
  /\ ai.reactionTime > 0

\* C7: the targeted-checkpoint index is always in [0, checkpointCount) and
\* starts at 0; an update call moves it from i to (i+1) mod checkpointCount
\* exactly when the distance to checkpoint i after the call's integration is
\* below 50, and leaves it alone otherwise
C7_CheckpointCursor ==
  /\ [](/\ ai.targetCheckpoint \in 0..(CheckpointCount(track) - 1)
        /\ (nUpdates = 0 => ai.targetCheckpoint = 0))
  /\ [][ nUpdates' = nUpdates + 1 =>
           LET i == ai.targetCheckpoint
               reached ==
                 Dist2(ai'.x, ai'.y, Checkpoint(track, i).x,
                       Checkpoint(track, i).y)
                   < CheckpointRadius * CheckpointRadius
           IN /\ ai'.targetCheckpoint =
                   IF reached THEN (i + 1) % CheckpointCount(track) ELSE i
              /\ Has(log', "advance") <=> reached ]_vars

\* the cursor wrapped from the last checkpoint to 0 in a call without an
\* opponent
C7_Witness ==
  /\ nUpdates >= CheckpointCount(track)
  /\ ~call.playerCar.present
  /\ Has(log, "advance")
  /\ ai.targetCheckpoint = 0

\* C9: the heading error of a pass lies in (-PI, PI]
C9_HeadingErrorHalfOpen ==
  pass.ran => (pass.angleDiff > -PI /\ pass.angleDiff <= PI)

C8_AheadOf ==
  query # NoQuery =>
    LET me == query.me
        other == query.other
        defined == me.targetCheckpoint # Undefined
                     /\ other.targetCheckpoint # Undefined
        cp == Checkpoint(track, me.targetCheckpoint)
    IN answer <=>
         /\ defined
         /\ \/ me.targetCheckpoint > other.targetCheckpoint
            \/ /\ me.targetCheckpoint = other.targetCheckpoint
               /\ Dist2(me.x, me.y, cp.x, cp.y)
                    < Dist2(other.x, other.y, cp.x, cp.y)

\* equal indices and equal distances: not ahead
C8_Witness ==
  /\ query # NoQuery
  /\ query.me.targetCheckpoint = 0
  /\ query.other.targetCheckpoint = 0
  /\ query.me.y # query.other.y
  /\ Dist2(query.me.x, query.me.y, 170, 130)
       = Dist2(query.other.x, query.other.y, 170, 130)
  /\ ~answer

-----------------------------------------------------------------------------
(* Properties of the decision pass *)

\* the pass ran inside the envelope: no flag and |heading error| < 0.8
InEnvelope == pass.ran /\ ~pass.hasCollisionAhead /\ Abs(pass.angleDiff) < 800

\* the speed the throttle test of the pass read
LoggedSpeed(l) == l[CHOOSE i \in 1..Len(l) : l[i].op = "getSpeed"].arg

\* C14: a pass with no imminent-collision flag and |heading error| < 0.8
\* calls accelerate if the speed it reads is below preferredSpeed and
\* releaseAccelerator otherwise: exactly one of the two, and never brake
C14_EnvelopeThrottle ==
  InEnvelope =>
    /\ Count(log, "getSpeed") = 1
    /\ Count(log, "accelerate") + Count(log, "releaseAccelerator") = 1
    /\ Has(log, "accelerate") <=> LoggedSpeed(log) < ai.preferredSpeed
    /\ \A i \in 1..Len(log) :
         log[i].op \in {"accelerate", "releaseAccelerator"} =>
           log[i].arg = ai.reactionTime
    /\ ~Has(log, "brake")

\* a pass inside the envelope at or above the preferred speed coasted
C14_Witness ==
  /\ InEnvelope
  /\ LoggedSpeed(log) >= ai.preferredSpeed
  /\ Has(log, "releaseAccelerator")

\* the lowest index (from 0) among the waypoints closest to (x, y)
LowestClosest(line, x, y) ==
  LET d(k) == Dist2(x, y, line[k].x, line[k].y)
  IN (CHOOSE k \in 1..Len(line) :
        /\ \A j \in 1..Len(line) : d(k) <= d(j)
        /\ \A j \in 1..(k - 1) : d(j) > d(k)) - 1

\* C15: the steering target of a pass is racingLine[(k + 10) mod L], k the
\* lowest index among the waypoints closest to the driver; the index is in
\* [0, L), and the heading error is measured against that waypoint
C15_LookAheadTarget ==
  pass.ran =>
    LET L == Len(ai.racingLine)
        k == LowestClosest(ai.racingLine, pass.x, pass.y)
    IN /\ pass.target = (k + 10) % L
       /\ pass.target \in 0..(L - 1)
       /\ pass.angleDiff =
            headingError([x |-> pass.x, y |-> pass.y, angle |-> pass.angle],
                         ai.racingLine[pass.target + 1])

\* the closest waypoint is within 10 of the end of the line: the target
\* index wrapped
C15_Witness ==
  /\ pass.ran
  /\ LowestClosest(ai.racingLine, pass.x, pass.y) + 10 >= Len(ai.racingLine)
  /\ pass.target < 10

\* two waypoints equally close (the end of one leg and the start of the
\* next): the lower index counts
C15_WitnessTie ==
  /\ pass.ran
  /\ LowestClosest(ai.racingLine, pass.x, pass.y) = 5
  /\ ai.racingLine[6] = ai.racingLine[7]
  /\ pass.target = 15

\* C16: a pass calls turnRight iff the heading error is > 0.1 and turnLeft
\* iff it is < -0.1, never both; the duration is reactionTime*1.5 with the
\* imminent-collision flag and reactionTime*1.0 without
C16_Steering ==
  pass.ran =>
    LET factor == IF pass.hasCollisionAhead THEN 15 ELSE 10
        duration == (ai.reactionTime * factor) \div 10
    IN /\ Has(log, "turnRight") <=> pass.angleDiff > 100
       /\ Has(log, "turnLeft") <=> pass.angleDiff < -100
       /\ Count(log, "turnRight") + Count(log, "turnLeft") <= 1
       /\ \A i \in 1..Len(log) :
            log[i].op \in {"turnRight", "turnLeft"} => log[i].arg = duration

\* a turn with the flag set, longer than the reaction time
C16_Witness ==
  /\ pass.ran
  /\ pass.hasCollisionAhead
  /\ ai.reactionTime > 0
  /\ \E i \in 1..Len(log) :
       /\ log[i].op \in {"turnRight", "turnLeft"}
       /\ log[i].arg > ai.reactionTime

\* a pass with the heading error within [-0.1, 0.1] did not turn
C16_WitnessStraight ==
  /\ pass.ran
  /\ Abs(pass.angleDiff) <= 100
  /\ ~Has(log, "turnRight") /\ ~Has(log, "turnLeft")

\* the endpoint of a ray cast from the pose the pass started at is
\* classified out of bounds by the track
RayOut(offset, range) ==
  isPointOutOfBounds(track,
    pass.x + RoundDiv(Sin(pass.angle + offset) * range, 1000),
    pass.y - RoundDiv(Cos(pass.angle + offset) * range, 1000))

\* C17: a pass senses with three rays, at heading offsets -0.5, 0, +0.5 rad
\* and ranges 80, 100, 80; each reading is 1.0 when the ray's endpoint is in
\* bounds and 0.5 when it is out of bounds; the imminent-collision flag is
\* set iff at least one endpoint is out of bounds
C17_ThreeRays ==
  pass.ran =>
    LET out == <<RayOut(-500, 80), RayOut(0, 100), RayOut(500, 80)>>
    IN /\ Len(pass.sensorReadings) = 3
       /\ \A i \in 1..3 :
            pass.sensorReadings[i] = IF out[i] THEN 5 ELSE 10
       /\ pass.hasCollisionAhead <=> \E i \in 1..3 : out[i]

\* a side ray leaves the track while the central one stays inside: the flag
\* is set
C17_Witness ==
  /\ pass.ran
  /\ pass.sensorReadings[2] = 10
  /\ pass.sensorReadings[1] = 5 \/ pass.sensorReadings[3] = 5
  /\ pass.hasCollisionAhead

\* C18: the drifting flag is true at the end of a pass iff the pass had no
\* imminent-collision flag, 0.4 < |heading error| < 0.8, speed above
\* 0.7*preferredSpeed and a roll below driftProbability; it is false at the
\* end of every other pass, and a driver with driftProbability 0 never
\* drifts
C18_DriftOnlyWhenRolled ==
  /\ pass.ran =>
       /\ pass.drifting <=>
            /\ ~pass.hasCollisionAhead
            /\ Abs(pass.angleDiff) > 400 /\ Abs(pass.angleDiff) < 800
            /\ pass.speed * 10 > ai.preferredSpeed * 7
            /\ pass.driftRoll >= 0
            /\ pass.driftRoll < ai.driftProbability
       /\ ai.drifting = pass.drifting
  /\ ai.driftProbability = 0 => ~ai.drifting

\* a pass that entered a drift
C18_Witness ==
  /\ pass.ran
  /\ pass.drifting
  /\ pass.driftRoll >= 0 /\ pass.driftRoll < ai.driftProbability

\* a pass in which everything but the roll allowed a drift
C18_WitnessRollTooHigh ==
  /\ pass.ran
  /\ pass.driftRoll >= ai.driftProbability
  /\ ai.driftProbability > 0
  /\ ~pass.drifting

\* the driver of the pass is ahead of the opponent of the call
PassAhead ==
  LET other == call.playerCar
      cp == Checkpoint(track, pass.targetCheckpoint)
  IN /\ other.targetCheckpoint # Undefined
     /\ \/ pass.targetCheckpoint > other.targetCheckpoint
        \/ /\ pass.targetCheckpoint = other.targetCheckpoint
           /\ Dist2(pass.x, pass.y, cp.x, cp.y)
                < Dist2(other.x, other.y, cp.x, cp.y)

\* the driver of the pass is more than 150 from its targeted checkpoint
PassLongStretch ==
  LET cp == Checkpoint(track, pass.targetCheckpoint)
  IN Dist2(pass.x, pass.y, cp.x, cp.y) > 150 * 150

\* C19: every pass calls activateBoost or deactivateBoost (one of them,
\* once); activateBoost only in a pass with no imminent-collision flag,
\* |heading error| < 0.8 and the driver not ahead of the opponent or more
\* than 150 from its targeted checkpoint; never with aggressiveness 0
C19_BoostDecision ==
  pass.ran =>
    /\ Count(log, "activateBoost") + Count(log, "deactivateBoost") = 1
    /\ Has(log, "activateBoost") =>
         /\ ~pass.hasCollisionAhead
         /\ Abs(pass.angleDiff) < 800
         /\ ~PassAhead \/ PassLongStretch
         /\ pass.before # 0
         /\ pass.boosting
    /\ Has(log, "deactivateBoost") => ~pass.boosting

\* boost activated by a driver that is ahead, on a long stretch
C19_Witness ==
  /\ pass.ran
  /\ Has(log, "activateBoost")
  /\ PassAhead
  /\ PassLongStretch

\* boost activated by a driver that is not ahead
C19_WitnessTrailing ==
  /\ pass.ran
  /\ Has(log, "activateBoost")
  /\ ~PassAhead

\* aggressiveness 0: a pass inside the envelope, not ahead, no boost
C19_WitnessMeek ==
  /\ InEnvelope
  /\ pass.before = 0
  /\ ~PassAhead
  /\ Has(log, "deactivateBoost")

-----------------------------------------------------------------------------
(* Properties of the frame loop *)

ControlOps ==
  { "accelerate", "brake", "releaseAccelerator", "turnLeft", "turnRight",
    "activateBoost", "deactivateBoost" }

\* the position in the trace of the first step (who, op); 0 if there is none
At(tr, who, op) ==
  IF \E i \in 1..Len(tr) : tr[i].who = who /\ tr[i].op = op
  THEN CHOOSE i \in 1..Len(tr) :
         /\ tr[i].who = who /\ tr[i].op = op
         /\ \A j \in 1..(i - 1) : ~(tr[j].who = who /\ tr[j].op = op)
  ELSE 0

C12_DeltaTimeBounded ==
  /\ frame.deltaTime >= 0 /\ frame.deltaTime <= 1000
  /\ \A i \in 1..Len(frame.trace) :
       frame.trace[i].op
           \in {"accelerate", "brake", "releaseAccelerator", "turnLeft",
                "turnRight", "Car.update", "update"}
         => (frame.trace[i].arg >= 0 /\ frame.trace[i].arg <= 1000)

\* C13: handleCollision is applied at most once in a run of consecutive
\* frames in contact (minimum sensor reading below 15): a frame in contact
\* that follows a frame in contact does not apply it again
C13_CollisionOncePerContact ==
  [][ (nUpdates' = nUpdates + 1 /\ frame.contact /\ frame'.contact)
        => At(frame'.trace, "playerCar", "handleCollision") = 0 ]_vars

\* C20: in a frame the player's control calls come first, then the update
\* of the player's car, then the update of the AI car, then the Track
\* queries (rays for the boundary, checkpoint), which see the position the
\* integration of this frame produced; the next frame is requested last
C20_FrameOrder ==
  frame # NoFrame =>
    LET tr == frame.trace
        mine == At(tr, "playerCar", "Car.update")
        theirs == At(tr, "aiCar", "update")
    IN /\ mine > 0 /\ theirs > mine
       /\ tr[Len(tr)].op = "requestAnimationFrame"
       /\ \A i \in 1..Len(tr) :
            /\ tr[i].op \in ControlOps => i < mine
            /\ tr[i].who = "track" =>
                 /\ i > theirs
                 /\ tr[i].arg.x = player.x /\ tr[i].arg.y = player.y

-----------------------------------------------------------------------------
(* C23: after an update call with an opponent and a positive reactionTime   *)
(* (deltaTime >= 0) the decision timer lies in [0, reactionTime); an update *)
(* call without an opponent makes no decision pass and adds deltaTime to    *)
(* the timer without ever resetting it, while Car.update and the checkpoint *)
(* test still run.                                                          *)
C23_TimerRange ==
  [][ nUpdates' = nUpdates + 1 =>
        /\ (call'.playerCar.present /\ ai'.reactionTime > 0
              /\ call'.deltaTime >= 0)
             => (0 <= ai'.lastDecision /\ ai'.lastDecision < ai'.reactionTime)
        /\ ~call'.playerCar.present
             => /\ pass' = NoPass
                /\ ai'.lastDecision = ai.lastDecision + call'.deltaTime
                /\ Count(log', "Car.update") = 1
                /\ Has(log', "checkpointTest") ]_vars

\* a driver that was updated without an opponent until its timer passed the
\* reaction time, and still moved
C23_Witness ==
  /\ nUpdates >= 2
  /\ ~call.playerCar.present
  /\ ai.reactionTime > 0
  /\ ai.lastDecision > 2 * ai.reactionTime
  /\ pass = NoPass
  /\ Has(log, "Car.update")

\* a timer that kept running below the reaction time with an opponent given
C23_WitnessRunning ==
  /\ nUpdates >= 1
  /\ call.playerCar.present
  /\ 0 < ai.lastDecision
  /\ ai.lastDecision < ai.reactionTime

\* a timer just reset by a pass
C23_WitnessReset ==
  /\ nUpdates >= 1
  /\ call.playerCar.present
  /\ ai.reactionTime > 0
  /\ pass # NoPass
  /\ ai.lastDecision = 0

-----------------------------------------------------------------------------
(* C21: in every frame the lap count goes up by one if checkCheckpoint      *)
(* returned 'finish' for the player in that frame and is unchanged if not; *)
(* at a finish the current lap time starts again from 0 (the frame's own    *)
(* elapsed time is then added by the statistics update that ends it).       *)
C21_LapCount ==
  [][ nUpdates' = nUpdates + 1 =>
        IF frame'.crossing = "finish"
        THEN /\ gameStats'.lap = gameStats.lap + 1
             /\ gameStats'.currentLapTime = frame'.deltaTime
        ELSE gameStats'.lap = gameStats.lap ]_vars

-----------------------------------------------------------------------------
(* C22: the boost meter stays within [0, 100] (tenths: 0..1000), loses 1 in *)
(* a frame that activates the player's boost and gains 0.2 in any other;    *)
(* a frame activates the boost only if the boost key is held and the meter  *)
(* is above 0 when the frame begins, so a frame that begins with an empty   *)
(* meter leaves the player's boost deactivated.                             *)
C22_BoostMeter ==
  [][ nUpdates' = nUpdates + 1 =>
        LET activated == At(frame'.trace, "playerCar", "activateBoost") # 0
        IN /\ 0 <= gameStats'.boost /\ gameStats'.boost <= 1000
           /\ gameStats'.boost = IF activated
                                 THEN Max(0, gameStats.boost - 10)
                                 ELSE Min(1000, gameStats.boost + 2)
           /\ activated => (" " \in keysPressed /\ gameStats.boost > 0)
           /\ gameStats.boost = 0 => ~player'.boosting ]_vars

-----------------------------------------------------------------------------
(* C24: once a session is loaded, gameStats.aiType names the class of the   *)
(* driver in use ('basic' for an AICar, 'enhanced' for an EnhancedAICar)    *)
(* after every key press, selection and start; a change of aiType in a      *)
(* loaded session comes with a newly constructed driver of the named class  *)
(* at the pose of the old one.                                              *)
C24_AiTypeMatchesDriver ==
  [][ /\ gameLoaded' => aiType' = aiKind'
      /\ (gameLoaded /\ aiType' # aiType)
           => /\ ids'.aiCar > built
              /\ Pose(ai') = Pose(ai) ]_vars

(* C25: a change of the camera mode during a race leaves the Track, both   *)
(* cars (position, heading, speed, checkpoint cursor) and the driver as     *)
(* they are: the same instances in the same state.                          *)
C25_CameraOnly ==
  [][ (gameLoaded /\ ~showModePicker /\ cameraMode' # cameraMode)
        => /\ ids'.track = ids.track /\ track' = track
           /\ ids'.playerCar = ids.playerCar /\ player' = player
           /\ ids'.aiCar = ids.aiCar /\ ai' = ai
           /\ aiKind' = aiKind ]_vars

\* the number of steps (who, op) in a trace
Steps(tr, who, op) ==
  Cardinality({i \in 1..Len(tr) : tr[i].who = who /\ tr[i].op = op})

\* at most one frame request is held, and none before the mode is selected
\* and the session objects exist
OneLoop ==
  /\ Cardinality(scheduled) <= 1
  /\ scheduled # {}
       => /\ ~showModePicker
          /\ gameLoaded
          /\ ids.track # 0 /\ ids.playerCar # 0
          /\ ids.aiCar # 0 /\ ids.camera # 0

(* C26: at most one gameLoop callback is pending at any time and none       *)
(* before the mode is selected and the session objects exist; a new loop    *)
(* is started only with the frame requested before cancelled; a frame runs  *)
(* only in a loaded session and updates each car once.                      *)
C26_SingleLoop ==
  [][ /\ OneLoop'
      /\ loops' # loops => scheduled' = {loops'}
      /\ nUpdates' = nUpdates + 1
           => /\ gameLoaded /\ ~showModePicker
              /\ Steps(frame'.trace, "playerCar", "Car.update") = 1
              /\ Steps(frame'.trace, "aiCar", "update") = 1 ]_vars

\* frames ran, and the loop that is pending is one started after a restart
\* of the session by a change of the camera
C26_Witness ==
  /\ nUpdates = MaxTicks
  /\ loops >= 2
  /\ scheduled = {loops}
  /\ cameraMode # "follow"
  /\ frame.trace # <<>>

\* a loop stopped by the switch to 3D graphics: its request is cancelled and
\* requestRef still names it
C26_WitnessStopped ==
  /\ gameLoaded
  /\ render3D
  /\ scheduled = {}
  /\ requestRef # 0
  /\ nUpdates >= 1

====
